---- MODULE Spec2Model ----
(***************************************************************************)
(* Model of the interview-tasks repository: the task runner                *)
(* (.codesandbox/taskRunner/taskRunner.js), the sliding-window rate limiter *)
(* that rateLimiter.test.js exercises, and the counter factory             *)
(* (.codesandbox/increment/increment.js).                                  *)
(*                                                                         *)
(* taskRunner.js holds two revisions of the exercise.  Revision "todo"     *)
(* (lines 1-46) has plain functions that throw Error("Not implemented")    *)
(* and an executeTask whose result has no startedAt.  Revision "stub"      *)
(* (lines 47-93) has async functions with an empty body and an executeTask *)
(* that records startedAt.  The model draws the revision in Init.          *)
(***************************************************************************)
EXTENDS Integers, Sequences, FiniteSets, TLC

\* ------------------------------------------------------------------ bounds
MaxTasks == 2
MaxDuration == 1
MaxTime == 2
MaxCalls == 2
MaxMaxCalls == 2
MaxWindow == 2
MaxLimiterCalls == 4
MaxLimiterTime == 4
MaxCounters == 2
MaxIncrementCalls == 6

VARIABLES
    variant,    \* which revision of taskRunner.js is loaded
    tasks,      \* the task list the caller passes (never written by the code)
    now,        \* Date.now()
    runs,       \* the calls made to the two entry points, in call order
    timers,     \* pending setTimeout callbacks of executeTask
    settled,    \* executeTask promises that have resolved, with their result
    nextSeq,    \* number of executeTask calls made so far (timer insertion order)
    limiter,    \* the limiter createRateLimiter produced (or none yet)
    history,    \* the limiter's call history: timestamps of admitted calls
    lnow,       \* Date.now() as the limiter sees it
    callLog,    \* every call made to the limiter function, in order
    invoked,    \* every invocation of the limiter's callback, in order
    counters,   \* the values createIncrement() has returned, in call order
    incLog      \* every call made on such a value, with how it ended

runnerVars == <<variant, tasks, now, runs, timers, settled, nextSeq>>
limiterVars == <<limiter, history, lnow, callLog, invoked>>
incrementVars == <<counters, incLog>>
vars == <<variant, tasks, now, runs, timers, settled, nextSeq,
          limiter, history, lnow, callLog, invoked, counters, incLog>>

\* ------------------------------------------------------------ task runner

Variants == {"todo", "stub"}

\* The id the caller gives the task at position i: ids that are neither the
\* positions nor sorted, as in the test "should maintain order of results".
IdPatterns == {<<5, 3, 7, 9>>}

\* Task: { id, duration }
TaskLists ==
    UNION { { [i \in 1..n |-> [id |-> p[i], duration |-> d[i]]] :
                p \in IdPatterns, d \in [1..n -> 0..MaxDuration] } :
            n \in 0..MaxTasks }

\* JavaScript values an entry point can produce.
UndefinedValue == [kind |-> "undefined", items |-> <<>>]
ArrayValue(s) == [kind |-> "array", items |-> s]
NotImplementedError == [kind |-> "error", items |-> <<>>]

\* startedAt of a result that has no such property (revision "todo").
Absent == -1

\* What one call of an entry point does before it returns: how the call ends
\* ("fulfilled": a promise resolved with value; "thrown": a synchronous
\* throw of value) and the positions of the tasks it hands to executeTask.
SequentiallyBody(v, ts) ==
    IF v = "todo"
    THEN [outcome |-> "thrown", value |-> NotImplementedError, launch |-> {}]
    ELSE [outcome |-> "fulfilled", value |-> UndefinedValue, launch |-> {}]

\* A body that hands every task to executeTask at once, whatever the limit.
ConcurrencyBodyLaunchAll(v, ts, concurrencyLimit) ==
    [outcome |-> "fulfilled", value |-> UndefinedValue, launch |-> 1..Len(ts)]

\* A body that starts its first task before it looks at the limit.
ConcurrencyBodyStartFirst(v, ts, concurrencyLimit) ==
    [outcome |-> "fulfilled", value |-> UndefinedValue,
     launch |-> IF ts = <<>> THEN {} ELSE {1}]

ConcurrencyBody(v, ts, concurrencyLimit) ==
    IF v = "todo"
    THEN [outcome |-> "thrown", value |-> NotImplementedError, launch |-> {}]
    ELSE [outcome |-> "fulfilled", value |-> UndefinedValue, launch |-> {}]

\* An executeTask that schedules its timer without the delay.
ExecuteTaskTimerNoDelay(v, task, run, idx, seq, t) ==
    [seq |-> seq, run |-> run, idx |-> idx, id |-> task.id,
     startedAt |-> IF v = "stub" THEN t ELSE Absent,
     fireAt |-> t]

\* executeTask(task): reads Date.now() (revision "stub" only) and schedules
\* the timer whose callback resolves the promise.
ExecuteTaskTimer(v, task, run, idx, seq, t) ==
    [seq |-> seq, run |-> run, idx |-> idx, id |-> task.id,
     startedAt |-> IF v = "stub" THEN t ELSE Absent,
     fireAt |-> t + task.duration]

\* The setTimeout callback: resolve({ id, startedAt, completedAt: Date.now() }).
\* A callback that reads the clock for startedAt itself (the Date.now() of
\* line 71 moved inside the setTimeout callback).
TimerCallbackStartsAtFire(tm, t) ==
    [seq |-> tm.seq, run |-> tm.run, idx |-> tm.idx,
     result |-> [id |-> tm.id, startedAt |-> t, completedAt |-> t]]

TimerCallback(tm, t) ==
    [seq |-> tm.seq, run |-> tm.run, idx |-> tm.idx,
     result |-> [id |-> tm.id, startedAt |-> tm.startedAt, completedAt |-> t]]

\* Timers the event loop may run now: those due, earliest deadline first and,
\* among equal deadlines, in the order they were scheduled.
NextTimers ==
    { tm \in timers :
        /\ tm.fireAt <= now
        /\ \A o \in timers :
              \/ o.fireAt > tm.fireAt
              \/ (o.fireAt = tm.fireAt /\ o.seq >= tm.seq) }

Rank(S, i) == Cardinality({ j \in S : j < i })

\* Calls the caller has made so far: to the entry points, and to executeTask
\* directly (run 0).
CallsMade ==
    Len(runs) + Cardinality({ tm \in timers : tm.run = 0 })
              + Cardinality({ s \in settled : s.run = 0 })

\* An entry point that takes the tasks off the caller's list (tasks.shift()).
EnterConsuming(fn, k, body) ==
    /\ CallsMade < MaxCalls
    /\ runs' = Append(runs, [fn |-> fn, limit |-> k, outcome |-> body.outcome,
                             value |-> body.value, calledAt |-> now])
    /\ tasks' = IF tasks = <<>> THEN tasks ELSE Tail(tasks)
    /\ UNCHANGED <<variant, now, timers, settled, nextSeq>>
    /\ UNCHANGED limiterVars
    /\ UNCHANGED incrementVars

\* The caller calls an entry point; the timers of the tasks the body hands to
\* executeTask are scheduled before the call returns.
Enter(fn, k, body) ==
    /\ CallsMade < MaxCalls
    /\ LET r == Len(runs) + 1 IN
        /\ runs' = Append(runs, [fn |-> fn, limit |-> k, outcome |-> body.outcome,
                                 value |-> body.value, calledAt |-> now])
        /\ timers' = timers \cup
              { ExecuteTaskTimer(variant, tasks[i], r, i,
                                 nextSeq + Rank(body.launch, i), now) :
                  i \in body.launch }
        /\ nextSeq' = nextSeq + Cardinality(body.launch)
    /\ UNCHANGED <<variant, tasks, now, settled>>
    /\ UNCHANGED limiterVars
    /\ UNCHANGED incrementVars

ExecuteTasksSequentially ==
    Enter("seq", 0, SequentiallyBody(variant, tasks))

ExecuteTasksWithConcurrency(k) ==
    Enter("conc", k, ConcurrencyBody(variant, tasks, k))

\* The caller calls the exported helper on one of its tasks (run 0).
ExecuteTask(i) ==
    /\ CallsMade < MaxCalls
    /\ timers' = timers \cup {ExecuteTaskTimer(variant, tasks[i], 0, i, nextSeq, now)}
    /\ nextSeq' = nextSeq + 1
    /\ UNCHANGED <<variant, tasks, now, runs, settled>>
    /\ UNCHANGED limiterVars
    /\ UNCHANGED incrementVars

\* A timer that is armed again after it fires (setInterval in place of
\* setTimeout): its callback runs once more at every later time.
FireTimerRepeating ==
    /\ \E tm \in NextTimers :
        /\ TimerCallback(tm, now) \notin settled
        /\ settled' = settled \cup {TimerCallback(tm, now)}
    /\ UNCHANGED <<variant, tasks, now, runs, timers, nextSeq>>
    /\ UNCHANGED limiterVars
    /\ UNCHANGED incrementVars

\* The event loop runs the callback of the next due timer: the promise of that
\* executeTask call resolves with a new TaskResult, and the timer is gone.
FireTimer ==
    /\ \E tm \in NextTimers :
        /\ timers' = timers \ {tm}
        /\ settled' = settled \cup {TimerCallback(tm, now)}
    /\ UNCHANGED <<variant, tasks, now, runs, nextSeq>>
    /\ UNCHANGED limiterVars
    /\ UNCHANGED incrementVars

Tick ==
    /\ now < MaxTime
    /\ now' = now + 1
    /\ UNCHANGED <<variant, tasks, runs, timers, settled, nextSeq>>
    /\ UNCHANGED limiterVars
    /\ UNCHANGED incrementVars

NoLimiter == [state |-> "none", maxCalls |-> 0, windowMs |-> 0, inclusive |-> FALSE]

LimiterIdle ==
    /\ limiter = NoLimiter
    /\ history = <<>>
    /\ lnow = 0
    /\ callLog = <<>>
    /\ invoked = <<>>

IncrementIdle ==
    /\ counters = <<>>
    /\ incLog = <<>>

InitRunner ==
    /\ variant \in Variants
    /\ tasks \in TaskLists
    /\ now = 0
    /\ runs = <<>>
    /\ timers = {}
    /\ settled = {}
    /\ nextSeq = 0
    /\ LimiterIdle
    /\ IncrementIdle

NextRunner ==
    \/ ExecuteTasksSequentially
    \/ \E k \in -1..(MaxTasks + 1) : ExecuteTasksWithConcurrency(k)
    \/ \E i \in 1..Len(tasks) : ExecuteTask(i)
    \/ FireTimer
    \/ Tick

SpecRunner == InitRunner /\ [][NextRunner]_vars

\* executeTask on its own: the caller only calls the exported helper. The
\* event loop runs a due timer's callback sooner or later, and time passes.
NextExecuteTask ==
    \/ \E i \in 1..Len(tasks) : ExecuteTask(i)
    \/ FireTimer
    \/ Tick

FairExecuteTask == WF_vars(FireTimer) /\ WF_vars(Tick)

SpecExecuteTask == InitRunner /\ [][NextExecuteTask]_vars /\ FairExecuteTask

\* ------------------------------------------------------------ rate limiter
\* rateLimiter.js is not among the sources; createRateLimiter is modelled from
\* its specified contract (sliding window over the timestamps of the admitted
\* calls) and from rateLimiter.test.js.

Args == {"a", "b"}

\* Whether a call made at time s is within the trailing window of a call at
\* time t >= s.  The limiter fixes at creation whether a call exactly windowMs
\* old still counts (inclusive) or has expired.
InWindow(lim, s, t) ==
    IF lim.inclusive THEN t - s <= lim.windowMs ELSE t - s < lim.windowMs

\* Pruning that lets entries expire one time unit early.
PruneEarly(lim, h, t) ==
    SelectSeq(h, LAMBDA s : t - s < lim.windowMs - 1)

\* The history without the entries older than the window.
Prune(lim, h, t) ==
    SelectSeq(h, LAMBDA s : InWindow(lim, s, t))

\* Admission with the comparison off by one.
AdmitsOneMore(lim, pruned) == Len(pruned) <= lim.maxCalls

\* Admission that lets a call through whenever the history is empty.
AdmitsWhenEmpty(lim, pruned) == pruned = <<>> \/ Len(pruned) < lim.maxCalls

\* A call is admitted if fewer than maxCalls calls are in the pruned history.
Admits(lim, pruned) == Len(pruned) < lim.maxCalls

\* A history that also records the calls it drops.
NextHistoryCountsDropped(pruned, t, admit) == Append(pruned, t)

\* Only an admitted call is recorded in the history.
NextHistory(pruned, t, admit) ==
    IF admit THEN Append(pruned, t) ELSE pruned

\* A factory that rejects a negative windowMs only.
FactoryStateZeroAllowed(w) == IF w < 0 THEN "configError" ELSE "ready"

\* How the factory ends: it raises the configuration error for a non-positive
\* windowMs and produces a limiter function otherwise.
FactoryState(w) == IF w <= 0 THEN "configError" ELSE "ready"

\* createRateLimiter(callback, maxCalls, windowMs): a non-positive windowMs is
\* a configuration error raised by the factory itself.
CreateRateLimiter(n, w, incl) ==
    /\ limiter.state = "none"
    /\ limiter' = [state |-> FactoryState(w),
                   maxCalls |-> n, windowMs |-> w, inclusive |-> incl]
    /\ UNCHANGED <<history, lnow, callLog, invoked>>
    /\ UNCHANGED runnerVars
    /\ UNCHANGED incrementVars

\* fn(args): prune, decide, and either invoke callback(args) or drop the call.
LimiterCall(a) ==
    /\ limiter.state = "ready"
    /\ Len(callLog) < MaxLimiterCalls
    /\ LET pruned == Prune(limiter, history, lnow)
           admit == Admits(limiter, pruned)
       IN /\ history' = NextHistory(pruned, lnow, admit)
          /\ invoked' = IF admit THEN Append(invoked, [t |-> lnow, args |-> a])
                                 ELSE invoked
          /\ callLog' = Append(callLog, [t |-> lnow, args |-> a,
                                         admitted |-> admit, threw |-> FALSE])
    /\ UNCHANGED <<limiter, lnow>>
    /\ UNCHANGED runnerVars
    /\ UNCHANGED incrementVars

LimiterTick ==
    /\ lnow < MaxLimiterTime
    /\ lnow' = lnow + 1
    /\ UNCHANGED <<limiter, history, callLog, invoked>>
    /\ UNCHANGED runnerVars
    /\ UNCHANGED incrementVars

InitLimiter ==
    /\ variant = "stub"
    /\ tasks = <<>>
    /\ now = 0
    /\ runs = <<>>
    /\ timers = {}
    /\ settled = {}
    /\ nextSeq = 0
    /\ LimiterIdle
    /\ IncrementIdle

NextLimiter ==
    \/ \E n \in 0..MaxMaxCalls, w \in -1..MaxWindow, incl \in BOOLEAN :
          CreateRateLimiter(n, w, incl)
    \/ \E a \in Args : LimiterCall(a)
    \/ LimiterTick

SpecLimiter == InitLimiter /\ [][NextLimiter]_vars

\* -------------------------------------------------------- counter factory

\* What createIncrement() returns: its body is empty, so undefined.
CreateIncrementResult == [kind |-> "undefined"]

\* How the call v() ends for a value v: calling undefined throws a TypeError.
CallValue(v) ==
    IF v.kind = "undefined"
    THEN [outcome |-> "TypeError", value |-> 0]
    ELSE [outcome |-> "returned", value |-> 0]

\* const increment = createIncrement()
CreateIncrement ==
    /\ Len(counters) < MaxCounters
    /\ counters' = Append(counters, CreateIncrementResult)
    /\ UNCHANGED incLog
    /\ UNCHANGED runnerVars
    /\ UNCHANGED limiterVars

\* increment(), on the c-th value createIncrement returned
CallIncrement(c) ==
    /\ Len(incLog) < MaxIncrementCalls
    /\ incLog' = Append(incLog, [counter |-> c] @@ CallValue(counters[c]))
    /\ UNCHANGED counters
    /\ UNCHANGED runnerVars
    /\ UNCHANGED limiterVars

InitIncrement ==
    /\ variant = "stub"
    /\ tasks = <<>>
    /\ now = 0
    /\ runs = <<>>
    /\ timers = {}
    /\ settled = {}
    /\ nextSeq = 0
    /\ LimiterIdle
    /\ IncrementIdle

NextIncrement ==
    \/ CreateIncrement
    \/ \E c \in 1..Len(counters) : CallIncrement(c)

SpecIncrement == InitIncrement /\ [][NextIncrement]_vars

\* ------------------------------------------------- task runner: the claims

RunIds == 1..Len(runs)

\* The tasks of run r that executeTask has started and whose timer is pending.
InFlight(r) == { tm \in timers : tm.run = r }

\* The tasks of run r whose promise has resolved.
Completed(r) == { s \in settled : s.run = r }

\* Every start of a task of run r: its position and its start time.
Started(r) ==
    { [idx |-> tm.idx, startedAt |-> tm.startedAt] : tm \in InFlight(r) } \cup
    { [idx |-> s.idx, startedAt |-> s.result.startedAt] : s \in Completed(r) }

IsConcurrent(r) == runs[r].fn = "conc"
IsSequential(r) == runs[r].fn = "seq"

\* The loaded revision is the later one (lines 47-93), the one C2..C7 cite.
IsCurrent == variant = "stub"

\* v is a list of one result per task, in the order of the tasks.
InInputOrder(v) ==
    /\ v.kind = "array"
    /\ Len(v.items) = Len(tasks)
    /\ \A i \in 1..Len(tasks) : v.items[i].id = tasks[i].id

\* In the list v each task starts no earlier than the one before it completes.
OneAfterAnother(v) ==
    \A i \in 2..Len(v.items) : v.items[i].startedAt >= v.items[i - 1].completedAt

\* C1: during a run of executeTasksWithConcurrency(tasks, K) with K >= 1 the
\* number of tasks started and not yet completed is at most K in every state.
C1_InFlightAtMostLimit ==
    \A r \in RunIds :
        (IsConcurrent(r) /\ runs[r].limit >= 1)
            => Cardinality(InFlight(r)) <= runs[r].limit

\* A run whose limit is below the number of tasks has been called, and time
\* has passed since.
C1_Witness ==
    \E r \in RunIds :
        /\ IsConcurrent(r)
        /\ runs[r].limit >= 1
        /\ runs[r].limit < Len(tasks)
        /\ now > runs[r].calledAt

\* C2: for every K >= 1 executeTasksWithConcurrency(tasks, K) resolves with a
\* list as long as tasks whose i-th result has the id of the i-th task.
C2_ResultsInInputOrder ==
    \A r \in RunIds :
        (IsCurrent /\ IsConcurrent(r) /\ runs[r].limit >= 1)
            => (runs[r].outcome = "fulfilled" /\ InInputOrder(runs[r].value))

\* C3: in a run with K >= 1 every task is started and completes exactly once,
\* and the promise resolves only after every task has completed, with no timer
\* of the run still pending.
C3_ResolvesAfterAllTasks ==
    \A r \in RunIds :
        (IsCurrent /\ IsConcurrent(r) /\ runs[r].limit >= 1) =>
            /\ \A i \in 1..Len(tasks) :
                  Cardinality({ x \in Started(r) : x.idx = i }) <= 1
            /\ runs[r].outcome = "fulfilled" =>
                  /\ InFlight(r) = {}
                  /\ \A i \in 1..Len(tasks) :
                        Cardinality({ s \in Completed(r) : s.idx = i }) = 1

\* C4: executeTasksSequentially resolves with the results in input order, each
\* task starting no earlier than the one before it completes, and never has
\* two tasks in flight.
C4_SequentialOneAtATime ==
    \A r \in RunIds :
        (IsCurrent /\ IsSequential(r)) =>
            /\ Cardinality(InFlight(r)) <= 1
            /\ runs[r].outcome = "fulfilled"
            /\ InInputOrder(runs[r].value)
            /\ OneAfterAnother(runs[r].value)

\* C5: executeTasksWithConcurrency(tasks, 1) and executeTasksSequentially(tasks)
\* called at the same time produce the same result list: the ids of the tasks
\* in input order, each task starting no earlier than the one before completes.
C5_LimitOneIsSequential ==
    \A c, q \in RunIds :
        (/\ IsCurrent
         /\ IsConcurrent(c) /\ runs[c].limit = 1
         /\ IsSequential(q)
         /\ runs[c].calledAt = runs[q].calledAt) =>
            /\ runs[c].outcome = runs[q].outcome
            /\ runs[c].value = runs[q].value
            /\ InInputOrder(runs[c].value)
            /\ OneAfterAnother(runs[c].value)

\* C6: with concurrencyLimit >= the number of tasks every task is started at
\* the time of the call, and the results show each task completing its own
\* duration after the call (the run lasts the longest duration, not the sum).
C6_AllStartAtCallTime ==
    \A r \in RunIds :
        (/\ IsCurrent /\ IsConcurrent(r)
         /\ runs[r].limit >= 1 /\ runs[r].limit >= Len(tasks)) =>
            /\ \A i \in 1..Len(tasks) :
                  [idx |-> i, startedAt |-> runs[r].calledAt] \in Started(r)
            /\ runs[r].outcome = "fulfilled" =>
                  /\ InInputOrder(runs[r].value)
                  /\ \A i \in 1..Len(tasks) :
                        /\ runs[r].value.items[i].startedAt = runs[r].calledAt
                        /\ runs[r].value.items[i].completedAt
                              >= runs[r].calledAt + tasks[i].duration

\* C7: on an empty task list both entry points resolve with an empty list,
\* without error and without starting a timer.
C7_EmptyListGivesEmptyList ==
    \A r \in RunIds :
        (IsCurrent /\ tasks = <<>> /\ (IsSequential(r) \/ runs[r].limit >= 1)) =>
            /\ runs[r].outcome = "fulfilled"
            /\ runs[r].value = ArrayValue(<<>>)
            /\ Started(r) = {}

\* C8: executeTasksWithConcurrency(tasks, L) with L <= 0 ends at call time with
\* one outcome, the same for every such L and every task list, and starts no
\* task.
C8_NonPositiveLimitOutcome ==
    \A r \in RunIds :
        (IsConcurrent(r) /\ runs[r].limit <= 0) =>
            /\ runs[r].outcome = (IF variant = "todo" THEN "thrown" ELSE "fulfilled")
            /\ runs[r].value =
                  (IF variant = "todo" THEN NotImplementedError ELSE UndefinedValue)
            /\ Started(r) = {}

\* Runs with limit 0 and limit -1 on a non-empty list have both been called.
C8_Witness ==
    /\ tasks # <<>>
    /\ \E a, b \in RunIds :
          /\ IsConcurrent(a) /\ runs[a].limit = 0
          /\ IsConcurrent(b) /\ runs[b].limit = -1
          /\ now > runs[a].calledAt

\* ------------------------------------------------ rate limiter: the claims

\* The calls before the k-th call that invoked the callback within the
\* trailing window of the k-th call.
RecentInvocations(k) ==
    { j \in 1..(k - 1) :
        callLog[j].admitted /\ InWindow(limiter, callLog[j].t, callLog[k].t) }

\* The admitted calls of the log, as the callback saw them.
RECURSIVE AdmittedCalls(_)
AdmittedCalls(log) ==
    IF log = <<>> THEN <<>>
    ELSE LET rest == AdmittedCalls(SubSeq(log, 1, Len(log) - 1))
             last == log[Len(log)]
         IN IF last.admitted THEN Append(rest, [t |-> last.t, args |-> last.args])
                             ELSE rest

\* C9: every window of length windowMs holds at most maxCalls invocations of
\* the callback: no invocation has maxCalls or more invocations before it
\* within its trailing window (the window the limiter itself uses).
C9_AtMostMaxCallsPerWindow ==
    limiter.state = "ready" =>
        \A k \in 1..Len(invoked) :
            Cardinality({ j \in 1..k :
                InWindow(limiter, invoked[j].t, invoked[k].t) }) <= limiter.maxCalls

\* A call was dropped while maxCalls >= 1 earlier invocations were within its
\* window, and a later call was admitted.
C9_Witness ==
    /\ limiter.state = "ready"
    /\ limiter.maxCalls >= 1
    /\ \E k \in 1..Len(callLog) :
          /\ ~callLog[k].admitted
          /\ Cardinality(RecentInvocations(k)) = limiter.maxCalls
          /\ \E m \in (k + 1)..Len(callLog) : callLog[m].admitted

\* C10: a call is admitted exactly when fewer than maxCalls invocations of the
\* callback lie in its trailing window; the callback has been invoked for the
\* admitted calls only, once each, at the time of the call and with its
\* arguments; no call raises an error; the history holds admitted calls only.
C10_AdmittedIffCapacity ==
    limiter.state = "ready" =>
        /\ \A k \in 1..Len(callLog) :
              /\ callLog[k].admitted
                    <=> Cardinality(RecentInvocations(k)) < limiter.maxCalls
              /\ ~callLog[k].threw
        /\ invoked = AdmittedCalls(callLog)
        /\ callLog # <<>> =>
              history = SelectSeq(
                  [j \in 1..Len(invoked) |-> invoked[j].t],
                  LAMBDA s : InWindow(limiter, s, callLog[Len(callLog)].t))

\* A call was dropped, and a later call at a later time was admitted after
\* the admitted calls before it had aged out of the window.
C10_Witness ==
    /\ limiter.state = "ready"
    /\ \E k \in 1..Len(callLog) :
          /\ ~callLog[k].admitted
          /\ \E m \in (k + 1)..Len(callLog) :
                /\ callLog[m].admitted
                /\ callLog[m].t > callLog[k].t
                /\ RecentInvocations(m) = {}

\* The calls made so far form one burst: the first is still within the window
\* of the last.
IsBurst ==
    /\ callLog # <<>>
    /\ InWindow(limiter, callLog[1].t, callLog[Len(callLog)].t)

\* C11: of the calls a fresh limiter receives in one burst exactly the first
\* maxCalls invoke the callback (all of them if the burst is shorter).
C11_BurstAdmitsFirstMaxCalls ==
    (limiter.state = "ready" /\ IsBurst) =>
        /\ \A k \in 1..Len(callLog) :
              callLog[k].admitted <=> k <= limiter.maxCalls
        /\ Len(callLog) >= limiter.maxCalls => Len(invoked) = limiter.maxCalls

\* A burst of at least two calls more than maxCalls >= 2 has been made.
C11_Witness ==
    /\ limiter.state = "ready"
    /\ limiter.maxCalls >= 2
    /\ IsBurst
    /\ Len(callLog) >= limiter.maxCalls + 2
    /\ Len(invoked) = limiter.maxCalls

\* C12: a limiter created with maxCalls = 0 never invokes the callback.
C12_ZeroMaxCallsDropsAll ==
    (limiter.state = "ready" /\ limiter.maxCalls = 0) =>
        /\ invoked = <<>>
        /\ \A k \in 1..Len(callLog) : ~callLog[k].admitted

\* A limiter with maxCalls = 0 has been called at least twice, the last time
\* more than a window after the first.
C12_Witness ==
    /\ limiter.state = "ready"
    /\ limiter.maxCalls = 0
    /\ Len(callLog) >= 2
    /\ callLog[Len(callLog)].t - callLog[1].t > limiter.windowMs

\* C13: createRateLimiter with windowMs <= 0 ends in the configuration error,
\* raised by the factory: no limiter function exists, so none is ever called.
C13_NonPositiveWindowIsConfigError ==
    (limiter.state # "none" /\ limiter.windowMs <= 0) =>
        /\ limiter.state = "configError"
        /\ callLog = <<>>
        /\ invoked = <<>>

\* createRateLimiter was called with windowMs = 0 and time has passed since.
C13_Witness ==
    /\ limiter.state = "configError"
    /\ limiter.windowMs = 0
    /\ limiter.maxCalls >= 1
    /\ lnow > 0

\* ---------------------------------------------- counter factory: the claims

\* The number of calls made on counter c among the first k calls of the log.
CallsOn(c, k) == Cardinality({ j \in 1..k : incLog[j].counter = c })

\* The k-th call of the log returned the number of calls made on its counter
\* so far.
ReturnsOwnCount(k) ==
    /\ incLog[k].outcome = "returned"
    /\ incLog[k].value = CallsOn(incLog[k].counter, k)

\* C14: the k-th invocation of a function produced by createIncrement()
\* returns k (one counter created).
C14_KthCallReturnsK ==
    Len(counters) = 1 =>
        \A k \in 1..Len(incLog) : ReturnsOwnCount(k)

\* C15: with two or more counters, whenever each was created and however the
\* calls interleave, the k-th call on each counter returns k.
C15_CountersIndependent ==
    Len(counters) >= 2 =>
        \A k \in 1..Len(incLog) : ReturnsOwnCount(k)

\* ------------------------------------------ task runner: the claims, continued

Min(a, b) == IF a <= b THEN a ELSE b

\* The sum of the durations of the first n tasks.
RECURSIVE SumDurations(_)
SumDurations(n) == IF n = 0 THEN 0 ELSE SumDurations(n - 1) + tasks[n].duration

\* C16: executeTask(task) resolves with the id of its task and, in the
\* revision that records startedAt, with completedAt >= startedAt and
\* completedAt - startedAt >= task.duration: never before the duration has
\* elapsed since the call.
C16_ExecuteTaskResult ==
    \A s \in settled :
        /\ s.result.id = tasks[s.idx].id
        /\ IsCurrent =>
              /\ s.result.completedAt >= s.result.startedAt
              /\ s.result.completedAt - s.result.startedAt >= tasks[s.idx].duration

\* executeTask was called directly on a task with a positive duration, after
\* time 0, and its promise has resolved.
C16_Witness ==
    /\ IsCurrent
    /\ \E s \in settled :
          /\ s.run = 0
          /\ tasks[s.idx].duration >= 1
          /\ s.result.startedAt >= 1
          /\ s.result.completedAt = s.result.startedAt + tasks[s.idx].duration

\* C17: while tasks of a run with K >= 1 remain to be started, exactly
\* min(K, number of tasks) tasks are in flight, and a task beyond the first K
\* starts no earlier than some earlier task completes.
C17_WorkConserving ==
    \A r \in RunIds :
        (IsCurrent /\ IsConcurrent(r) /\ runs[r].limit >= 1) =>
            /\ (\E i \in 1..Len(tasks) : \A x \in Started(r) : x.idx # i)
                  => Cardinality(InFlight(r)) = Min(runs[r].limit, Len(tasks))
            /\ \A x \in Started(r) :
                  x.idx > runs[r].limit =>
                      \E c \in Completed(r) :
                          /\ c.idx < x.idx
                          /\ c.result.completedAt <= x.startedAt

\* C18: executeTasksSequentially on a non-empty list resolves with results
\* whose span, from the first startedAt to the last completedAt, is at least
\* the sum of the durations, and leaves no timer pending.
C18_SequentialSpanIsSum ==
    \A r \in RunIds :
        (IsCurrent /\ IsSequential(r) /\ tasks # <<>>) =>
            /\ runs[r].outcome = "fulfilled"
            /\ InFlight(r) = {}
            /\ InInputOrder(runs[r].value)
            /\ runs[r].value.items[Len(tasks)].completedAt
                  - runs[r].value.items[1].startedAt >= SumDurations(Len(tasks))

\* C19: two calls of executeTasksWithConcurrency in progress together each
\* keep to their own limit and each resolve with the results of their own
\* executeTask calls, in input order, none of them a result of the other run.
C19_RunsIndependent ==
    \A a, b \in RunIds :
        (/\ IsCurrent /\ a # b
         /\ IsConcurrent(a) /\ runs[a].limit >= 1
         /\ IsConcurrent(b) /\ runs[b].limit >= 1) =>
            /\ Cardinality(InFlight(a)) <= runs[a].limit
            /\ runs[a].outcome = "fulfilled"
            /\ InInputOrder(runs[a].value)
            /\ \A i \in 1..Len(tasks) :
                  \E c \in Completed(a) :
                      c.idx = i /\ c.result = runs[a].value.items[i]

\* C20: no step of executeTask or of the two entry points changes the task
\* list: its length and every task's id and duration stay as they were.
C20_TasksUnchanged == [][tasks' = tasks]_vars

\* On a non-empty list an entry point has been called, and a direct
\* executeTask call has resolved.
C20_Witness ==
    /\ tasks # <<>>
    /\ runs # <<>>
    /\ \E s \in settled : s.run = 0

\* ------------------------------------------------- executeTask: the claims

\* The timers and the results of the executeTask call numbered q.
TimersOf(q) == { tm \in timers : tm.seq = q }
ResultsOf(q) == { s \in settled : s.seq = q }

\* Every executeTask call made so far is either still waiting for its one
\* timer or has resolved with its one TaskResult, never both and never twice.
\* The promise executor has no reject branch, so resolving is the only way a
\* call settles.
OneResultPerCall ==
    /\ \A q \in 0..(nextSeq - 1) :
          Cardinality(TimersOf(q)) + Cardinality(ResultsOf(q)) = 1
    /\ \A x \in timers \cup settled : x.seq < nextSeq

\* C21: the promise of every executeTask call settles by resolving, exactly
\* once: at every moment a call has one pending timer or one TaskResult, and
\* a call whose duration ends within the modelled time does resolve.
C21_ExecuteTaskResolvesOnce ==
    /\ []OneResultPerCall
    /\ \A q \in 0..(MaxCalls - 1) :
          (\E tm \in TimersOf(q) : tm.fireAt <= MaxTime) ~> (ResultsOf(q) # {})

\* executeTask was called twice on the same task, once at time 0 and once
\* later, and both promises have resolved, each with its own TaskResult.
C21_Witness ==
    /\ timers = {}
    /\ \E a, b \in settled :
          /\ a.seq # b.seq
          /\ a.idx = b.idx
          /\ tasks[a.idx].duration >= 1
          /\ a.result.completedAt < b.result.completedAt

\* C22: executeTask records startedAt at the moment of the call and only arms
\* a timer: the step that makes the call resolves nothing, even for duration
\* 0, and a result comes from a timer armed in an earlier step and carries
\* the startedAt recorded by the call, not the time the timer fired.
C22_StartedAtIsCallTime ==
    [][/\ \A tm \in timers' \ timers : IsCurrent => tm.startedAt = now
       /\ nextSeq' # nextSeq => settled' = settled
       /\ \A s \in settled' \ settled :
             \E tm \in timers :
                 /\ tm.seq = s.seq
                 /\ s.result.startedAt = tm.startedAt]_vars

\* executeTask was called after time 0 on a task of duration 0 and its timer
\* fired late: the result has the call's time, before its completion time.
C22_Witness ==
    /\ IsCurrent
    /\ \E s \in settled :
          /\ tasks[s.idx].duration = 0
          /\ s.result.startedAt >= 1
          /\ s.result.completedAt > s.result.startedAt

\* The executeTask calls that run r has made for the task at position i.
StartsOf(r, i) ==
    { tm.seq : tm \in { t \in InFlight(r) : t.idx = i } } \cup
    { s.seq : s \in { c \in Completed(r) : c.idx = i } }

\* C23: a run with K >= 1 starts its tasks in input order with one cursor:
\* the first task is started by the call, a task is started only after every
\* task before it and no earlier than them, none is started twice, and the
\* run resolves with every task started and startedAt rising along the list.
C23_StartedInInputOrder ==
    \A r \in RunIds :
        (IsCurrent /\ IsConcurrent(r) /\ runs[r].limit >= 1 /\ tasks # <<>>) =>
            /\ StartsOf(r, 1) # {}
            /\ \A i \in 1..Len(tasks) : Cardinality(StartsOf(r, i)) <= 1
            /\ \A x \in Started(r) :
                  \A i \in 1..x.idx :
                      \E y \in Started(r) :
                          y.idx = i /\ y.startedAt <= x.startedAt
            /\ runs[r].outcome = "fulfilled" =>
                  /\ InInputOrder(runs[r].value)
                  /\ \A i, j \in 1..Len(tasks) :
                        i < j => runs[r].value.items[i].startedAt
                                     <= runs[r].value.items[j].startedAt

====
